---- MODULE Spec2Model ----
(***************************************************************************)
(* Model of the Jakarta air-quality pipeline:                              *)
(*   src/Data/aqi_formulation.py  - the breakpoint converter               *)
(*   src/Data/merge_daily_data.py - class AQIRawData and the module script *)
(*                                                                         *)
(* Numbers.  Every float of the program is held as a fixed-point number in *)
(* tenths (15.5 is 155, the index 50 is 500), so that the breakpoints and  *)
(* the one-decimal results of aqi_to_concentration are exact.  A float     *)
(* cell of a DataFrame is <<>> for NaN and <<v>> for the number v/10.      *)
(* A mean is kept as an exact fraction and rounded half to even, as        *)
(* Python's round and numpy's round do.  (At a handful of exact decimal    *)
(* ties the binary float of the source falls on the other side and the     *)
(* result differs by one unit in the last place, e.g. 4.7 for 4.6 from     *)
(* aqi_to_concentration('pm25', 15); the properties below are exact values *)
(* away from such ties, or bounds that both neighbours meet.)              *)
(***************************************************************************)
EXTENDS Integers, Sequences, FiniteSets, TLC

VARIABLES
    pc,                 \* position of the module script (lines 404-423)
    pm25_csv,           \* the PM2.5 files on disk, per city: hourly readings
    aqi_csv,            \* the monthly files of the combined series: raw rows
    pm25_raw_data,      \* result of load_and_process_pm25_raw_data, per city
    aqi_raw_data,       \* the consolidated table (aligned, then merged)
    daily_aqi_raw_data, \* result of process_daily_aqi_raw_data
    saved,              \* what to_csv has written: a sequence of tables
    missing,            \* what the disk lacks of the script's inputs
    call,               \* a direct call of one converter operation
    ret                 \* its result

vars == <<pc, pm25_csv, aqi_csv, pm25_raw_data, aqi_raw_data,
          daily_aqi_raw_data, saved, missing, call, ret>>

-----------------------------------------------------------------------------
(* Bounds of the model *)

\* calendar days of the processed range (2010-01-01..2021-12-31 in the source)
MaxDay == 2
\* rows in the combined series' files
MaxRows == 2
\* hourly readings in one city's PM2.5 files
MaxReadings == 2
\* largest index handed to a converter operation directly
MaxIndex == 305

Days == 1..MaxDay

-----------------------------------------------------------------------------
(* Float cells *)

NaN == <<>>
Num(v) == <<v>>
IsNaN(x) == x = NaN
Val(x) == x[1]

\* round(num/den) to an integer, ties to the even neighbour; den > 0
RoundHalfEven(num, den) ==
    LET fl == num \div den
        r2 == 2 * (num - fl * den)
    IN  IF r2 > den THEN fl + 1
        ELSE IF r2 < den THEN fl
        ELSE IF fl % 2 = 0 THEN fl ELSE fl + 1

-----------------------------------------------------------------------------
(* aqi_formulation.py *)

Pollutants == <<"pm25", "pm10", "so2", "co", "o3", "no2">>

\* the keys of concentration_to_aqi's table (the values of
\* aqi_to_concentration's), in tenths, in insertion order
aqi_conversion_table ==
    [pm25 |-> <<155, 554, 1504, 2504, 5000>>,
     pm10 |-> <<500, 1500, 3500, 4200, 5000>>,
     so2  |-> <<520, 1800, 4000, 8000, 12000>>,
     co   |-> <<40000, 80000, 150000, 300000, 450000>>,
     o3   |-> <<1200, 2350, 4000, 8000, 10000>>,
     no2  |-> <<800, 2000, 11300, 22600, 30000>>]

\* range(1, 50+1), range(51, 100+1), ... : [lo, hi] inclusive, whole indices
index_ranges ==
    <<[lo |-> 1, hi |-> 50], [lo |-> 51, hi |-> 100], [lo |-> 101, hi |-> 200],
      [lo |-> 201, hi |-> 300], [lo |-> 301, hi |-> 301]>>

NumKeys == Len(index_ranges)

NoAnchors == [Xa |-> 0, Xb |-> 0, Ia |-> 0, Ib |-> 0]

Ok(v) == [status |-> "ok", val |-> v]
ZeroDivisionError == [status |-> "ZeroDivisionError", val |-> NaN]
Pending == [status |-> "pending", val |-> NaN]

\* ConcLoop with `Xx < key' for `Xx <= key'
RECURSIVE ConcLoopStrict(_, _, _)
ConcLoopStrict(p, x, k) ==
    LET temp == aqi_conversion_table[p]
    IN  IF k > NumKeys THEN NoAnchors
        ELSE IF x < temp[k]
        THEN [Xa |-> temp[k],
              Xb |-> IF x > temp[1] THEN temp[1] ELSE 0,
              Ia |-> index_ranges[k].hi,
              Ib |-> IF x > temp[1] THEN index_ranges[1].hi ELSE index_ranges[1].lo]
        ELSE IF x > temp[NumKeys]
        THEN [Xa |-> temp[NumKeys],
              Xb |-> IF x > temp[1] THEN temp[1] ELSE 0,
              Ia |-> index_ranges[NumKeys].hi,
              Ib |-> IF x > temp[1] THEN index_ranges[1].hi ELSE index_ranges[1].lo]
        ELSE ConcLoopStrict(p, x, k + 1)

\* the for loop of concentration_to_aqi from key number k on (lines 69-81);
\* x in tenths, Xa and Xb in tenths, Ia and Ib whole indices
RECURSIVE ConcLoop(_, _, _)
ConcLoop(p, x, k) ==
    LET temp == aqi_conversion_table[p]
    IN  IF k > NumKeys THEN NoAnchors
        ELSE IF x <= temp[k]
        THEN [Xa |-> temp[k],
              Xb |-> IF x > temp[1] THEN temp[1] ELSE 0,
              Ia |-> index_ranges[k].hi,
              Ib |-> IF x > temp[1] THEN index_ranges[1].hi ELSE index_ranges[1].lo]
        ELSE IF x > temp[NumKeys]
        THEN [Xa |-> temp[NumKeys],
              Xb |-> IF x > temp[1] THEN temp[1] ELSE 0,
              Ia |-> index_ranges[NumKeys].hi,
              Ib |-> IF x > temp[1] THEN index_ranges[1].hi ELSE index_ranges[1].lo]
        ELSE ConcLoop(p, x, k + 1)

\* concentration_to_aqi with `~np.isnan(Xx)' alone for the condition of line 68
concentration_to_aqi_nan_only(p, Xx) ==
    IF IsNaN(Xx) THEN Ok(Xx)
    ELSE LET a == ConcLoop(p, Val(Xx), 1)
             den == a.Xa - a.Xb
         IN  IF den = 0 THEN ZeroDivisionError
             ELSE Ok(Num(10 * RoundHalfEven(
                     (a.Ia - a.Ib) * (Val(Xx) - a.Xb) + a.Ib * den, den)))

\* concentration_to_aqi(aqi_parameter, Xx): Xx a float cell, the result a
\* float cell holding a whole index (in tenths) or Xx itself
concentration_to_aqi(p, Xx) ==
    IF IsNaN(Xx) \/ Val(Xx) = 0 THEN Ok(Xx)
    ELSE LET a == ConcLoop(p, Val(Xx), 1)
             den == a.Xa - a.Xb
         IN  IF den = 0 THEN ZeroDivisionError
             ELSE Ok(Num(10 * RoundHalfEven(
                     (a.Ia - a.Ib) * (Val(Xx) - a.Xb) + a.Ib * den, den)))

\* InRange as an upper-bound test: `I <= max(key)' for `I in key'
InRangeUpperBound(i10, r) == i10 <= 10 * r.hi

\* `I in range(lo, hi+1)' for a float I held in tenths: only whole numbers
InRange(i10, r) == i10 % 10 = 0 /\ (i10 \div 10) >= r.lo /\ (i10 \div 10) <= r.hi

\* IndexLoop with `I >= max(temp[0])' for `I > max(temp[0])'
RECURSIVE IndexLoopFrom(_, _, _)
IndexLoopFrom(p, i, k) ==
    LET conc == aqi_conversion_table[p]
        first == index_ranges[1]
        last == index_ranges[NumKeys]
    IN  IF k > NumKeys THEN NoAnchors
        ELSE IF InRange(i, index_ranges[k])
        THEN [Xa |-> conc[k],
              Xb |-> IF i >= 10 * first.hi THEN conc[1] ELSE 0,
              Ia |-> index_ranges[k].hi,
              Ib |-> IF i >= 10 * first.hi THEN first.hi ELSE 0]
        ELSE IF i > 10 * last.hi
        THEN [Xa |-> conc[NumKeys],
              Xb |-> conc[1],
              Ia |-> last.hi,
              Ib |-> IF i >= 10 * first.hi THEN first.hi ELSE 0]
        ELSE IndexLoopFrom(p, i, k + 1)

\* the for loop of aqi_to_concentration from key number k on (lines 154-166);
\* i in tenths
RECURSIVE IndexLoop(_, _, _)
IndexLoop(p, i, k) ==
    LET conc == aqi_conversion_table[p]
        first == index_ranges[1]
        last == index_ranges[NumKeys]
    IN  IF k > NumKeys THEN NoAnchors
        ELSE IF InRange(i, index_ranges[k])
        THEN [Xa |-> conc[k],
              Xb |-> IF i > 10 * first.hi THEN conc[1] ELSE 0,
              Ia |-> index_ranges[k].hi,
              Ib |-> IF i > 10 * first.hi THEN first.hi ELSE 0]
        ELSE IF i > 10 * last.hi
        THEN [Xa |-> conc[NumKeys],
              Xb |-> conc[1],
              Ia |-> last.hi,
              Ib |-> IF i > 10 * first.hi THEN first.hi ELSE 0]
        ELSE IndexLoop(p, i, k + 1)

\* aqi_to_concentration(aqi_parameter, I): I a float cell, the result a float
\* cell rounded to one decimal (a whole number of tenths) or I itself
aqi_to_concentration(p, I) ==
    IF IsNaN(I) \/ Val(I) = 0 THEN Ok(I)
    ELSE LET a == IndexLoop(p, Val(I), 1)
             den == a.Ia - a.Ib
         IN  IF den = 0 THEN ZeroDivisionError
             ELSE Ok(Num(RoundHalfEven(
                     (a.Xa - a.Xb) * (Val(I) - 10 * a.Ib) + 10 * a.Xb * den,
                     10 * den)))

-----------------------------------------------------------------------------
(* merge_daily_data.py: tables *)

\* default arguments of the methods of AQIRawData
which_jakarta == <<"Central", "South">>
pm25_stations == <<"DKI1 (Bunderan HI)", "DKI3 (Jagakarsa)">>
measurement_stations ==
    <<"DKI1 (Bunderan HI)", "DKI2 (Kelapa Gading)", "DKI3 (Jagakarsa)",
      "DKI4 (Lubang Buaya)", "DKI5 (Kebon Jeruk)">>
DKI5Alias == "DKI5 (Kebon Jeruk) Jakarta Barat"

Range(s) == {s[i] : i \in DOMAIN s}

\* a row of a DataFrame: its date, its station and its float cells by column
Row(d, s, c) == [tanggal |-> d, stasiun |-> s, cells |-> c]

\* position of a station name in the lexicographic order of strings
StationRank(s) ==
    IF s = DKI5Alias THEN Len(measurement_stations) + 1
    ELSE IF s \in Range(measurement_stations)
         THEN CHOOSE i \in DOMAIN measurement_stations : measurement_stations[i] = s
         ELSE Len(measurement_stations) + 2

KeyLE(r1, r2) ==
    \/ StationRank(r1.stasiun) < StationRank(r2.stasiun)
    \/ /\ StationRank(r1.stasiun) = StationRank(r2.stasiun)
       /\ r1.tanggal <= r2.tanggal

RECURSIVE InsertSorted(_, _)
InsertSorted(s, r) ==
    IF s = <<>> THEN <<r>>
    ELSE IF KeyLE(s[Len(s)], r) THEN Append(s, r)
    ELSE Append(InsertSorted(SubSeq(s, 1, Len(s) - 1), r), s[Len(s)])

\* DataFrame.sort_values(by=['stasiun', 'tanggal']): a stable sort
RECURSIVE sort_values(_)
sort_values(t) ==
    IF t = <<>> THEN <<>>
    ELSE InsertSorted(sort_values(SubSeq(t, 1, Len(t) - 1)), t[Len(t)])

\* sum and count of the non-NaN cells of column c, as mean(numeric_only=True)
\* takes them: the mean is sum/n, and NaN when n = 0
RECURSIVE ColSum(_, _)
ColSum(t, c) ==
    IF t = <<>> THEN [sum |-> 0, n |-> 0]
    ELSE LET rest == ColSum(Tail(t), c)
             x == Head(t).cells[c]
         IN  IF IsNaN(x) THEN rest
             ELSE [sum |-> rest.sum + Val(x), n |-> rest.n + 1]

-----------------------------------------------------------------------------
(* AQIRawData.load_and_process_pm25_raw_data (lines 44-113) *)

\* one city's frame from line 88 on: rows with QC Name 'Valid', the daily
\* mean of 'Raw Conc.' per calendar day, the days whose mean is > 0, the mean
\* rounded to a whole number, the station inserted
RECURSIVE Pm25Daily(_, _, _)
Pm25Daily(valid, station, d) ==
    IF d > MaxDay THEN <<>>
    ELSE LET m == ColSum(SelectSeq(valid, LAMBDA r : r.tanggal = d), "Raw Conc.")
         IN  (IF m.n > 0 /\ m.sum > 0
              THEN <<Row(d, station,
                         [c \in {"pm25(ug/m3)"} |->
                             Num(10 * RoundHalfEven(m.sum, 10 * m.n))])>>
              ELSE <<>>)
             \o Pm25Daily(valid, station, d + 1)

load_and_process_pm25_raw_data(files) ==
    [i \in DOMAIN which_jakarta |->
        Pm25Daily(SelectSeq(files[i], LAMBDA r : r.qc = "Valid"),
                  pm25_stations[i], 1)]

-----------------------------------------------------------------------------
(* AQIRawData.load_and_process_aqi_raw_data (lines 116-202) *)

RawColumns == <<"pm25(ug/m3)", "pm10", "so2", "co", "o3", "no2">>

\* lines 156-169: column 'pm25' becomes 'pm25(ug/m3)', the alias of DKI5 is
\* replaced
Combined(file) ==
    [k \in DOMAIN file |->
        Row(file[k].tanggal,
            IF file[k].stasiun = DKI5Alias
            THEN measurement_stations[5] ELSE file[k].stasiun,
            [c \in Range(RawColumns) |->
                IF c = "pm25(ug/m3)" THEN file[k].cells["pm25"]
                ELSE file[k].cells[c]])]

\* unavailable_date with the dates of every station taken as present
RECURSIVE unavailable_date_any_station(_, _, _)
unavailable_date_any_station(t, station, d) ==
    IF d > MaxDay THEN <<>>
    ELSE (IF \E k \in DOMAIN t : t[k].tanggal = d
          THEN <<>>
          ELSE <<Row(d, station, [c \in Range(RawColumns) |-> NaN])>>)
         \o unavailable_date_any_station(t, station, d + 1)

\* lines 178-181: the dates of the range with no row of the station, as rows
\* that hold the date and the station only (every other cell NaN after concat)
RECURSIVE unavailable_date(_, _, _)
unavailable_date(t, station, d) ==
    IF d > MaxDay THEN <<>>
    ELSE (IF \E k \in DOMAIN t : t[k].stasiun = station /\ t[k].tanggal = d
          THEN <<>>
          ELSE <<Row(d, station, [c \in Range(RawColumns) |-> NaN])>>)
         \o unavailable_date(t, station, d + 1)

RECURSIVE unavailable_dates(_, _)
unavailable_dates(t, i) ==
    IF i > Len(measurement_stations) THEN <<>>
    ELSE unavailable_date(t, measurement_stations[i], 1)
         \o unavailable_dates(t, i + 1)

\* line 193: PM2.5 of every station but DKI1 and DKI3 is set to NaN
RemoveUnnecessary(t) ==
    [k \in DOMAIN t |->
        IF t[k].stasiun # "DKI1 (Bunderan HI)" /\ t[k].stasiun # "DKI3 (Jagakarsa)"
        THEN [t[k] EXCEPT !.cells["pm25(ug/m3)"] = NaN]
        ELSE t[k]]

load_and_process_aqi_raw_data(file) ==
    LET combined == Combined(file)
    IN  sort_values(RemoveUnnecessary(combined \o unavailable_dates(combined, 1)))

-----------------------------------------------------------------------------
(* AQIRawData.merge_pm25_aqi_raw_data (lines 205-295) *)

AllColumns ==
    <<"pm25(ug/m3)", "pm25", "pm10(ug/m3)", "pm10", "so2(ug/m3)", "so2",
      "co(ug/m3)", "co", "o3(ug/m3)", "o3", "no2(ug/m3)", "no2">>

\* the concentration column of a pollutant: the one before its index column
ConcColumn ==
    [p \in Range(Pollutants) |->
        AllColumns[(CHOOSE k \in DOMAIN AllColumns : AllColumns[k] = p) - 1]]

\* update without the filter on the station
update_any_station(t, other, station) ==
    [k \in DOMAIN t |->
        IF \E j \in DOMAIN other :
              /\ other[j].tanggal = t[k].tanggal
              /\ ~IsNaN(other[j].cells["pm25(ug/m3)"])
        THEN LET j == CHOOSE j \in DOMAIN other :
                        /\ other[j].tanggal = t[k].tanggal
                        /\ ~IsNaN(other[j].cells["pm25(ug/m3)"])
             IN  [t[k] EXCEPT !.cells["pm25(ug/m3)"] = other[j].cells["pm25(ug/m3)"]]
        ELSE t[k]]

\* line 255: aqi_raw_data.update(other[['pm25(ug/m3)']], overwrite=True,
\* filter_func = stasiun == station): a row of the station takes the value
\* the other frame holds at the row's date, when it holds one that is not NaN
update(t, other, station) ==
    [k \in DOMAIN t |->
        IF /\ t[k].stasiun = station
           /\ \E j \in DOMAIN other :
                 /\ other[j].tanggal = t[k].tanggal
                 /\ ~IsNaN(other[j].cells["pm25(ug/m3)"])
        THEN LET j == CHOOSE j \in DOMAIN other :
                        /\ other[j].tanggal = t[k].tanggal
                        /\ ~IsNaN(other[j].cells["pm25(ug/m3)"])
             IN  [t[k] EXCEPT !.cells["pm25(ug/m3)"] = other[j].cells["pm25(ug/m3)"]]
        ELSE t[k]]

\* lines 249-255: the loop over the list of PM2.5 frames
RECURSIVE MergeLoop(_, _, _)
MergeLoop(t, pm25, i) ==
    IF i > Len(pm25) THEN t
    ELSE MergeLoop(update(t, pm25[i], pm25_stations[i]), pm25, i + 1)

\* lines 264-269 for one row: the converter's result for each new column
Converted(r) ==
    [c \in Range(AllColumns) |->
        IF c = "pm25" THEN concentration_to_aqi("pm25", r.cells["pm25(ug/m3)"])
        ELSE IF c = "pm25(ug/m3)" THEN Ok(r.cells[c])
        ELSE IF \E q \in Range(Pollutants) : ConcColumn[q] = c
        THEN LET p == CHOOSE q \in Range(Pollutants) : ConcColumn[q] = c
             IN  aqi_to_concentration(p, r.cells[p])
        ELSE Ok(r.cells[c])]

\* the whole method: the merged and converted table, or the exception that a
\* conversion raised
merge_pm25_aqi_raw_data(pm25, t) ==
    LET merged == sort_values(MergeLoop(t, pm25, 1))
        conv == [k \in DOMAIN merged |-> Converted(merged[k])]
    IN  IF \E k \in DOMAIN conv : \E c \in Range(AllColumns) :
              conv[k][c].status # "ok"
        THEN [status |-> "ZeroDivisionError", table |-> <<>>]
        ELSE [status |-> "ok",
              table |-> [k \in DOMAIN merged |->
                            Row(merged[k].tanggal, merged[k].stasiun,
                                [c \in Range(AllColumns) |-> conv[k][c].val])]]

-----------------------------------------------------------------------------
(* AQIRawData.process_daily_aqi_raw_data (lines 298-401) *)

\* line 337: range(1, 51), range(51, 101), range(101, 201), range(201, 301)
kategori_ispu ==
    <<[lo |-> 1, hi |-> 50, label |-> "BAIK"],
      [lo |-> 51, hi |-> 100, label |-> "SEDANG"],
      [lo |-> 101, hi |-> 200, label |-> "TIDAK SEHAT"],
      [lo |-> 201, hi |-> 300, label |-> "SANGAT TIDAK SEHAT"]>>

\* a mean as a fraction of tenths: sum/n, NaN when n = 0
FracLE(a, b) == a.sum * b.n <= b.sum * a.n

\* line 325 for one station: resample('D').mean(numeric_only=True) gives one
\* row for every day from the station's first date to its last
RECURSIVE Resample(_, _, _)
Resample(rows, d, last) ==
    IF d > last THEN <<>>
    ELSE LET day == SelectSeq(rows, LAMBDA r : r.tanggal = d)
         IN  <<Row(d, rows[1].stasiun,
                   [c \in Range(AllColumns) |-> ColSum(day, c)])>>
             \o Resample(rows, d + 1, last)

RECURSIVE DailyMeans(_, _)
DailyMeans(t, i) ==
    IF i > Len(measurement_stations) THEN <<>>
    ELSE LET rows == SelectSeq(t, LAMBDA r : r.stasiun = measurement_stations[i])
             dates == {rows[k].tanggal : k \in DOMAIN rows}
         IN  (IF rows = <<>> THEN <<>>
              ELSE Resample(rows,
                            CHOOSE d \in dates : \A e \in dates : d <= e,
                            CHOOSE d \in dates : \A e \in dates : e <= d))
             \o DailyMeans(t, i + 1)

\* the index columns of a row of means that hold a number
Present(r) == {p \in Range(Pollutants) : r.cells[p].n > 0}

\* line 340: max(axis=1) over the six index columns, NaN skipped
RowMax(r) ==
    IF Present(r) = {} THEN [sum |-> 0, n |-> 0]
    ELSE LET p == CHOOSE q \in Present(r) :
                      \A o \in Present(r) : FracLE(r.cells[o], r.cells[q])
         IN  r.cells[p]

\* line 343: idxmax(axis=1).str.upper(): the first column, in the order of
\* the selection, that holds the maximum; NaN when every column is NaN
Upper(p) ==
    CASE p = "pm25" -> "PM25" [] p = "pm10" -> "PM10" [] p = "so2" -> "SO2"
      [] p = "co" -> "CO" [] p = "o3" -> "O3" [] p = "no2" -> "NO2"

\* RowIdxMax with the last column that holds the maximum
RowIdxMaxLast(r) ==
    IF Present(r) = {} THEN "NaN"
    ELSE LET mx == RowMax(r)
             IsMax(p) == r.cells[p].n > 0 /\ FracLE(mx, r.cells[p])
             k == CHOOSE i \in DOMAIN Pollutants :
                      /\ IsMax(Pollutants[i])
                      /\ \A j \in (i + 1)..Len(Pollutants) : ~IsMax(Pollutants[j])
         IN  Upper(Pollutants[k])

RowIdxMax(r) ==
    IF Present(r) = {} THEN "NaN"
    ELSE LET mx == RowMax(r)
             IsMax(p) == r.cells[p].n > 0 /\ FracLE(mx, r.cells[p])
             k == CHOOSE i \in DOMAIN Pollutants :
                      /\ IsMax(Pollutants[i])
                      /\ \A j \in 1..(i - 1) : ~IsMax(Pollutants[j])
         IN  Upper(Pollutants[k])

\* lines 346-350: fillna(0), round, astype(int)
IntOf(f) == IF f.n = 0 THEN 0 ELSE RoundHalfEven(f.sum, 10 * f.n)

\* KeyLoop with `max > 301' for `max >= 301'
RECURSIVE KeyLoopAbove(_, _)
KeyLoopAbove(m, k) ==
    IF k > Len(kategori_ispu) THEN <<>>
    ELSE IF m = 0 THEN <<"TIDAK ADA DATA">>
    ELSE IF m >= kategori_ispu[k].lo /\ m <= kategori_ispu[k].hi
    THEN <<kategori_ispu[k].label>>
    ELSE IF m > 301 THEN <<"BERBAHAYA">>
    ELSE KeyLoopAbove(m, k + 1)

\* lines 362-389 for one row: the labels the loop over the keys of
\* kategori_ispu appends for the value m of column 'max', from key k on
RECURSIVE KeyLoop(_, _)
KeyLoop(m, k) ==
    IF k > Len(kategori_ispu) THEN <<>>
    ELSE IF m = 0 THEN <<"TIDAK ADA DATA">>
    ELSE IF m >= kategori_ispu[k].lo /\ m <= kategori_ispu[k].hi
    THEN <<kategori_ispu[k].label>>
    ELSE IF m >= 301 THEN <<"BERBAHAYA">>
    ELSE KeyLoop(m, k + 1)

\* lines 356-389: the list `categori' after the loop over the rows
RECURSIVE CategoriLoop(_)
CategoriLoop(maxcol) ==
    IF maxcol = <<>> THEN <<>>
    ELSE KeyLoop(Head(maxcol), 1) \o CategoriLoop(Tail(maxcol))

\* line 395: replace([0, np.nan], '---') on a number of the table
Render(n) == IF n = 0 THEN "---" ELSE ToString(n)

process_daily_aqi_raw_data(t) ==
    LET means == DailyMeans(t, 1)
        maxcol == [k \in DOMAIN means |-> IntOf(RowMax(means[k]))]
        categori == CategoriLoop(maxcol)
    IN  sort_values(
          [k \in DOMAIN means |->
            LET critical == RowIdxMax(means[k])
            IN  [tanggal |-> means[k].tanggal,
                 stasiun |-> means[k].stasiun,
                 cells |-> [c \in Range(AllColumns) \cup {"max"} |->
                              IF c = "max" THEN Render(maxcol[k])
                              ELSE Render(IntOf(means[k].cells[c]))],
                 critical |-> IF critical = "NaN" THEN "---" ELSE critical,
                 categori |-> IF k <= Len(categori) THEN categori[k] ELSE "---"]])

-----------------------------------------------------------------------------
(* The files on disk *)

\* nondecreasing index sequences of length at most n over 1..k: the files
\* are enumerated up to the order of their rows
Picks(k, n) ==
    UNION {{s \in [1..m -> 1..k] : \A i \in 1..(m - 1) : s[i] <= s[i + 1]} :
           m \in 0..n}

\* an hourly reading of a PM2.5 file: date, QC Name, Raw Conc.
Reading(d, v, q) ==
    [tanggal |-> d, qc |-> q, cells |-> [c \in {"Raw Conc."} |-> Num(v)]]

ReadingKinds ==
    <<[v |-> -50, q |-> "Valid"], [v |-> 100, q |-> "Valid"],
      [v |-> 9850, q |-> "Invalid"]>>

ReadingAt(e) ==
    LET kind == ReadingKinds[((e - 1) % Len(ReadingKinds)) + 1]
    IN  Reading(((e - 1) \div Len(ReadingKinds)) + 1, kind.v, kind.q)

Pm25Files ==
    {[k \in DOMAIN s |-> ReadingAt(s[k])] :
        s \in Picks(MaxDay * Len(ReadingKinds), MaxReadings)}

\* the PM2.5 files beside which the other input is varied: no reading, or
\* one valid reading per city on the first day
Pm25FilesFew ==
    {<<<<>>, <<>>>>,
     <<<<Reading(1, 100, "Valid")>>, <<Reading(1, 210, "Valid")>>>>}

\* one city's files varied, the other city's taken from Pm25FilesFew
Pm25FilesOneCity ==
    UNION {{[few EXCEPT ![i] = f] : f \in Pm25Files, i \in DOMAIN which_jakarta} :
           few \in Pm25FilesFew}

\* the six raw columns of a row of the combined series, after to_numeric
RawCells(pm25, pm10, so2, co, o3, no2) ==
    [pm25 |-> pm25, pm10 |-> pm10, so2 |-> so2, co |-> co, o3 |-> o3, no2 |-> no2]

RawKinds ==
    <<RawCells(Num(-50), NaN, NaN, NaN, NaN, NaN),
      RawCells(Num(0), NaN, NaN, NaN, NaN, NaN),
      RawCells(Num(100), Num(510), Num(520), NaN, NaN, NaN),
      RawCells(NaN, Num(520), Num(520), NaN, NaN, NaN),
      RawCells(NaN, Num(505), NaN, NaN, NaN, NaN),
      RawCells(NaN, NaN, NaN, Num(3020), Num(1500), Num(3020)),
      RawCells(NaN, NaN, Num(-30), NaN, NaN, NaN)>>

RawStations == <<"DKI1 (Bunderan HI)", DKI5Alias>>

RawRowAt(e) ==
    LET kind == RawKinds[((e - 1) % Len(RawKinds)) + 1]
        rest == (e - 1) \div Len(RawKinds)
    IN  Row((rest % MaxDay) + 1, RawStations[(rest \div MaxDay) + 1], kind)

AqiFiles ==
    {[k \in DOMAIN s |-> RawRowAt(s[k])] :
        s \in Picks(Len(RawStations) * MaxDay * Len(RawKinds), MaxRows)}

\* what makes load_and_process_pm25_raw_data raise: a yearly file that
\* read_csv does not find (line 74, FileNotFoundError), a column that the
\* lines 86-97 select or drop and the files do not hold (KeyError)
Pm25Faults == {"pm25 file", "pm25 column"}

\* what makes load_and_process_aqi_raw_data raise: a year's directory that
\* listdir does not find (line 138, FileNotFoundError), a column that the
\* lines 153-163 drop, pop or select and the files do not hold (KeyError)
AqiFaults == {"aqi directory", "aqi column"}

NoCall == [fn |-> "none", p |-> "none", x |-> NaN]

-----------------------------------------------------------------------------
(* The module script (lines 404-423) *)

Init ==
    /\ pc = "load_pm25"
    /\ \/ /\ pm25_csv \in Pm25FilesOneCity /\ aqi_csv = <<>>
          /\ missing \in {"nothing"} \cup Pm25Faults \cup AqiFaults
       \/ /\ pm25_csv \in Pm25FilesFew /\ aqi_csv \in AqiFiles
          /\ missing = "nothing"
    /\ pm25_raw_data = <<>>
    /\ aqi_raw_data = <<>>
    /\ daily_aqi_raw_data = <<>>
    /\ saved = <<>>
    /\ call = NoCall
    /\ ret = Pending

\* line 408: an exception of the method ends the script
LoadPm25 ==
    /\ pc = "load_pm25"
    /\ IF missing \in Pm25Faults
       THEN pm25_raw_data' = pm25_raw_data /\ pc' = "failed"
       ELSE /\ pm25_raw_data' = load_and_process_pm25_raw_data(pm25_csv)
            /\ pc' = "load_aqi"
    /\ UNCHANGED <<pm25_csv, aqi_csv, aqi_raw_data, daily_aqi_raw_data, saved,
                   missing, call, ret>>

\* LoadAqi with the exception caught and the files taken as empty
LoadAqiSwallowsError ==
    /\ pc = "load_aqi"
    /\ aqi_raw_data' = load_and_process_aqi_raw_data(
                           IF missing \in AqiFaults THEN <<>> ELSE aqi_csv)
    /\ pc' = "merge"
    /\ UNCHANGED <<pm25_csv, aqi_csv, pm25_raw_data, daily_aqi_raw_data, saved,
                   missing, call, ret>>

\* line 414: an exception of the method ends the script
LoadAqi ==
    /\ pc = "load_aqi"
    /\ IF missing \in AqiFaults
       THEN aqi_raw_data' = aqi_raw_data /\ pc' = "failed"
       ELSE /\ aqi_raw_data' = load_and_process_aqi_raw_data(aqi_csv)
            /\ pc' = "merge"
    /\ UNCHANGED <<pm25_csv, aqi_csv, pm25_raw_data, daily_aqi_raw_data, saved,
                   missing, call, ret>>

\* line 417: an exception of a conversion ends the script
Merge ==
    /\ pc = "merge"
    /\ LET r == merge_pm25_aqi_raw_data(pm25_raw_data, aqi_raw_data)
       IN  IF r.status = "ok"
           THEN aqi_raw_data' = r.table /\ pc' = "process"
           ELSE aqi_raw_data' = aqi_raw_data /\ pc' = "failed"
    /\ UNCHANGED <<pm25_csv, aqi_csv, pm25_raw_data, daily_aqi_raw_data, saved,
                   missing, call, ret>>

\* line 420
Process ==
    /\ pc = "process"
    /\ daily_aqi_raw_data' = process_daily_aqi_raw_data(aqi_raw_data)
    /\ pc' = "to_csv"
    /\ UNCHANGED <<pm25_csv, aqi_csv, pm25_raw_data, aqi_raw_data, saved,
                   missing, call, ret>>

\* line 423
ToCsv ==
    /\ pc = "to_csv"
    /\ saved' = Append(saved, daily_aqi_raw_data)
    /\ pc' = "done"
    /\ UNCHANGED <<pm25_csv, aqi_csv, pm25_raw_data, aqi_raw_data,
                   daily_aqi_raw_data, missing, call, ret>>

Next == LoadPm25 \/ LoadAqi \/ Merge \/ Process \/ ToCsv

Spec == Init /\ [][Next]_vars

-----------------------------------------------------------------------------
(* Direct calls of the converter and of the category loop *)

\* concentrations handed to concentration_to_aqi besides the breakpoints
ConcSamples == {-50, -1, 1, 100, 155, 156, 1000, 6000}

ConvCalls ==
    {[fn |-> "concentration_to_aqi", p |-> p, x |-> x] :
        p \in Range(Pollutants),
        x \in {NaN, Num(0)} \cup {Num(v) : v \in ConcSamples}}
    \cup UNION {{[fn |-> "concentration_to_aqi", p |-> p,
                  x |-> Num(aqi_conversion_table[p][k])] : k \in 1..NumKeys} :
                p \in Range(Pollutants)}
    \cup {[fn |-> "aqi_to_concentration", p |-> p, x |-> x] :
            p \in Range(Pollutants),
            x \in {NaN, Num(-30), Num(505)} \cup {Num(10 * i) : i \in 0..MaxIndex}}
    \cup {[fn |-> "categori", p |-> "max", x |-> <<m>>] : m \in 0..MaxIndex}

InitConv ==
    /\ pc = "call"
    /\ call \in ConvCalls
    /\ ret = Pending
    /\ pm25_csv = <<<<>>, <<>>>>
    /\ aqi_csv = <<>>
    /\ pm25_raw_data = <<>>
    /\ aqi_raw_data = <<>>
    /\ daily_aqi_raw_data = <<>>
    /\ saved = <<>>
    /\ missing = "nothing"

Return(r) ==
    /\ ret' = r
    /\ pc' = "returned"
    /\ UNCHANGED <<pm25_csv, aqi_csv, pm25_raw_data, aqi_raw_data,
                   daily_aqi_raw_data, saved, missing, call>>

CallConcentrationToAqi ==
    /\ pc = "call"
    /\ call.fn = "concentration_to_aqi"
    /\ Return(concentration_to_aqi(call.p, call.x))

CallAqiToConcentration ==
    /\ pc = "call"
    /\ call.fn = "aqi_to_concentration"
    /\ Return(aqi_to_concentration(call.p, call.x))

\* the category loop on a table whose column 'max' is call.x
CallCategori ==
    /\ pc = "call"
    /\ call.fn = "categori"
    /\ Return(Ok(CategoriLoop(call.x)))

NextConv == CallConcentrationToAqi \/ CallAqiToConcentration \/ CallCategori

SpecConv == InitConv /\ [][NextConv]_vars

-----------------------------------------------------------------------------
(* Properties *)

AfterLoadPm25 ==
    /\ pc \in {"load_aqi", "merge", "process", "to_csv", "done", "failed"}
    /\ missing \notin Pm25Faults
Aligned == pc = "merge"
Merged == pc \in {"process", "to_csv", "done"}
Processed == pc \in {"to_csv", "done"}
Returned(fn) == pc = "returned" /\ call.fn = fn

\* the rows of table t for a station and a date
RowsOf(t, s, d) == {k \in DOMAIN t : t[k].stasiun = s /\ t[k].tanggal = d}

\* the station a raw row of the combined series is filed under
FiledUnder(r) == IF r.stasiun = DKI5Alias THEN "DKI5 (Kebon Jeruk)" ELSE r.stasiun

RawRowsOf(s, d) ==
    {k \in DOMAIN aqi_csv : FiledUnder(aqi_csv[k]) = s /\ aqi_csv[k].tanggal = d}

\* C1: after load_and_process_pm25_raw_data, for every city and every day,
\* the daily PM2.5 value is the rounded mean of that day's valid readings
\* with concentration > 0 only, and the day is absent only when it has no
\* such reading.
C1_MeanOfPositiveReadings ==
    AfterLoadPm25 =>
        \A i \in DOMAIN which_jakarta, d \in Days :
            LET pos == SelectSeq(pm25_csv[i],
                                 LAMBDA r : /\ r.qc = "Valid"
                                            /\ r.tanggal = d
                                            /\ Val(r.cells["Raw Conc."]) > 0)
                m == ColSum(pos, "Raw Conc.")
                rows == RowsOf(pm25_raw_data[i], pm25_stations[i], d)
            IN  IF pos = <<>> THEN rows = {}
                ELSE /\ Cardinality(rows) = 1
                     /\ \A k \in rows :
                           pm25_raw_data[i][k].cells["pm25(ug/m3)"]
                               = Num(10 * RoundHalfEven(m.sum, 10 * m.n))

\* C2: concentration_to_aqi('pm25', 10) returns 32.
C2_Pm25TenGives32 ==
    (Returned("concentration_to_aqi") /\ call.p = "pm25" /\ call.x = Num(100))
        => ret = Ok(Num(320))

\* C3: in the merged table, a row whose PM2.5 concentration is negative,
\* zero or missing has a PM2.5 sub-index that is missing or zero, never a
\* number computed by interpolation.
C3_NonPositivePropagatesAsMissing ==
    Merged =>
        \A k \in DOMAIN aqi_raw_data :
            LET conc == aqi_raw_data[k].cells["pm25(ug/m3)"]
                index == aqi_raw_data[k].cells["pm25"]
            IN  (IsNaN(conc) \/ Val(conc) <= 0)
                    => (IsNaN(index) \/ Val(index) = 0)

\* C4 as claimed: after the alignment step the table holds exactly one row
\* for every monitored station and every date of the range, for any raw
\* input.
C4_ExactlyOneRowForAnyInput ==
    Aligned =>
        \A s \in Range(measurement_stations), d \in Days :
            Cardinality(RowsOf(aqi_raw_data, s, d)) = 1

\* C4 as amended: after the alignment step the table holds at least one row
\* for every monitored station and every date of the range: one row of
\* missing values when the raw input has no row for that station and date,
\* and otherwise exactly the raw input's rows, so exactly one row whenever
\* the raw input has at most one.
C4_AlignmentFillsGapsOnly ==
    Aligned =>
        \A s \in Range(measurement_stations), d \in Days :
            LET rows == RowsOf(aqi_raw_data, s, d)
            IN  IF RawRowsOf(s, d) = {}
                THEN /\ Cardinality(rows) = 1
                     /\ \A k \in rows : \A c \in Range(RawColumns) :
                           IsNaN(aqi_raw_data[k].cells[c])
                ELSE Cardinality(rows) = Cardinality(RawRowsOf(s, d))

\* C4 witness: an aligned table with a filled gap and a station-date that
\* the raw input holds twice
C4_Witness ==
    /\ Aligned
    /\ \E s \in Range(measurement_stations), d \in Days :
          RawRowsOf(s, d) = {} /\ Cardinality(RowsOf(aqi_raw_data, s, d)) = 1
    /\ \E s \in Range(measurement_stations), d \in Days :
          /\ Cardinality(RawRowsOf(s, d)) = 2
          /\ Cardinality(RowsOf(aqi_raw_data, s, d)) = 2

\* C5: in the merged table every row of a station other than DKI1 and DKI3
\* has a missing PM2.5 concentration and a missing PM2.5 sub-index, and every
\* row of DKI1 or DKI3 whose date has a value in that station's separately
\* loaded series carries exactly that value.
C5_SelectiveOverwrite ==
    Merged =>
        \A k \in DOMAIN aqi_raw_data :
            LET r == aqi_raw_data[k]
            IN  /\ r.stasiun \notin {"DKI1 (Bunderan HI)", "DKI3 (Jagakarsa)"}
                     => /\ IsNaN(r.cells["pm25(ug/m3)"])
                        /\ IsNaN(r.cells["pm25"])
                /\ \A i \in DOMAIN pm25_stations :
                     \A j \in DOMAIN pm25_raw_data[i] :
                        (r.stasiun = pm25_stations[i]
                           /\ pm25_raw_data[i][j].tanggal = r.tanggal)
                        => r.cells["pm25(ug/m3)"]
                             = pm25_raw_data[i][j].cells["pm25(ug/m3)"]

\* C5 witness: a merged table where the combined series carried PM2.5 values
\* both for DKI5 and for DKI1, and the two separately loaded series hold
\* different values for the same date
C5_Witness ==
    /\ Merged
    /\ \E k \in DOMAIN aqi_csv :
          aqi_csv[k].stasiun = DKI5Alias /\ ~IsNaN(aqi_csv[k].cells["pm25"])
    /\ \E k \in DOMAIN aqi_csv, j \in DOMAIN pm25_raw_data[1] :
          /\ aqi_csv[k].stasiun = "DKI1 (Bunderan HI)"
          /\ ~IsNaN(aqi_csv[k].cells["pm25"])
          /\ aqi_csv[k].tanggal = pm25_raw_data[1][j].tanggal
          /\ aqi_csv[k].cells["pm25"] # pm25_raw_data[1][j].cells["pm25(ug/m3)"]
    /\ \E j1 \in DOMAIN pm25_raw_data[1], j2 \in DOMAIN pm25_raw_data[2] :
          /\ pm25_raw_data[1][j1].tanggal = pm25_raw_data[2][j2].tanggal
          /\ pm25_raw_data[1][j1].cells # pm25_raw_data[2][j2].cells

\* C6: the category loop maps a composite index m >= 0 to 'TIDAK ADA DATA'
\* iff m = 0, 'BAIK' iff 1 <= m <= 50, 'SEDANG' iff 51 <= m <= 100,
\* 'TIDAK SEHAT' iff 101 <= m <= 200, 'SANGAT TIDAK SEHAT' iff
\* 201 <= m <= 300 and 'BERBAHAYA' iff m >= 301.
C6_CategoryByRange ==
    Returned("categori") =>
        LET m == call.x[1]
            label(l) == ret.val = <<l>>
        IN  /\ ret.status = "ok"
            /\ Len(ret.val) = 1
            /\ label("TIDAK ADA DATA") <=> m = 0
            /\ label("BAIK") <=> (1 <= m /\ m <= 50)
            /\ label("SEDANG") <=> (51 <= m /\ m <= 100)
            /\ label("TIDAK SEHAT") <=> (101 <= m /\ m <= 200)
            /\ label("SANGAT TIDAK SEHAT") <=> (201 <= m /\ m <= 300)
            /\ label("BERBAHAYA") <=> m >= 301

\* C6 witness: the loop has labelled the composite index 301
C6_Witness ==
    Returned("categori") /\ call.x = <<301>> /\ ret.val = <<"BERBAHAYA">>

\* the averages of the merged table's rows for a station and a date
GroupMean(s, d, c) ==
    ColSum(SelectSeq(aqi_raw_data, LAMBDA r : r.stasiun = s /\ r.tanggal = d), c)

\* pollutant number i holds the largest average of its station-day and no
\* pollutant before it holds as large a one
FirstLargestAverage(s, d, i) ==
    LET mean(j) == GroupMean(s, d, Pollutants[j])
    IN  /\ mean(i).n > 0
        /\ \A j \in DOMAIN Pollutants :
              mean(j).n > 0 =>
                  /\ FracLE(mean(j), mean(i))
                  /\ j < i => ~FracLE(mean(i), mean(j))

\* C7 as claimed: in every output row with a non-zero composite index,
\* 'critical' names the first pollutant in the order PM2.5, PM10, SO2, CO,
\* O3, NO2 whose sub-index in that output row equals the row's 'max'.
C7_FirstWithEqualSubIndex ==
    Processed =>
        \A k \in DOMAIN daily_aqi_raw_data :
            LET r == daily_aqi_raw_data[k]
            IN  r.cells["max"] # "---" =>
                    \E i \in DOMAIN Pollutants :
                        /\ r.critical = Upper(Pollutants[i])
                        /\ r.cells[Pollutants[i]] = r.cells["max"]
                        /\ \A j \in 1..(i - 1) :
                              r.cells[Pollutants[j]] # r.cells["max"]

\* C7 as amended: in every output row with a non-zero composite index,
\* 'critical' names a pollutant whose sub-index in that output row equals the
\* row's 'max', namely the first pollutant in the fixed order that holds the
\* largest average sub-index of the station-day before rounding; a pollutant
\* earlier in the order whose smaller average rounds to the same whole number
\* is not named.
C7_FirstLargestBeforeRounding ==
    Processed =>
        \A k \in DOMAIN daily_aqi_raw_data :
            LET r == daily_aqi_raw_data[k]
            IN  r.cells["max"] # "---" =>
                    \E i \in DOMAIN Pollutants :
                        /\ r.critical = Upper(Pollutants[i])
                        /\ r.cells[Pollutants[i]] = r.cells["max"]
                        /\ FirstLargestAverage(r.stasiun, r.tanggal, i)

\* C7 witness: an output row averaged from two input rows in which PM10 and
\* SO2 carry the composite index and 'critical' names SO2
C7_Witness ==
    /\ Processed
    /\ \E k \in DOMAIN daily_aqi_raw_data :
          LET r == daily_aqi_raw_data[k]
          IN  /\ Cardinality(RowsOf(aqi_raw_data, r.stasiun, r.tanggal)) = 2
              /\ r.cells["max"] # "---"
              /\ r.cells["pm10"] = r.cells["max"]
              /\ r.cells["so2"] = r.cells["max"]
              /\ r.critical = "SO2"

\* C8: for an index of the sub-range 1-50, aqi_to_concentration returns a
\* concentration within [0, X1], and for an index of the sub-range 51-100 one
\* within [X1, X2], X1 and X2 the pollutant's first two breakpoints.
C8_WithinSubRangeBounds ==
    Returned("aqi_to_concentration") =>
        LET X1 == aqi_conversion_table[call.p][1]
            X2 == aqi_conversion_table[call.p][2]
        IN  \A i \in 1..100 :
                call.x = Num(10 * i) =>
                    /\ ret.status = "ok"
                    /\ ~IsNaN(ret.val)
                    /\ i <= 50 => (0 <= Val(ret.val) /\ Val(ret.val) <= X1)
                    /\ i >= 51 => (X1 <= Val(ret.val) /\ Val(ret.val) <= X2)

\* C8 witness: indices of both sub-ranges have been converted, here the
\* index 51 of PM2.5 to 16.3
C8_Witness ==
    /\ Returned("aqi_to_concentration")
    /\ call.p = "pm25"
    /\ call.x = Num(510)
    /\ ret = Ok(Num(163))

\* C9: concentration_to_aqi of a concentration equal to a tabulated
\* breakpoint returns that breakpoint's maximum index: 50, 100, 200, 300 and
\* 301 for the five breakpoints of each of the six pollutants.
C9_BreakpointGivesMaxIndex ==
    Returned("concentration_to_aqi") =>
        \A k \in 1..5 :
            call.x = Num(aqi_conversion_table[call.p][k])
                => ret = Ok(Num(10 * <<50, 100, 200, 300, 301>>[k]))

\* C9 witness: the top breakpoint of NO2 has been converted to 301
C9_Witness ==
    /\ Returned("concentration_to_aqi")
    /\ call.p = "no2"
    /\ call.x = Num(30000)
    /\ ret = Ok(Num(3010))

\* no file holds a reading for the station on the date: no row of the
\* combined series and, for DKI1 and DKI3, no reading of the city's PM2.5
\* files
NoReading(s, d) ==
    /\ RawRowsOf(s, d) = {}
    /\ \A i \in DOMAIN pm25_stations :
          pm25_stations[i] = s =>
              \A k \in DOMAIN pm25_csv[i] : pm25_csv[i][k].tanggal # d

\* C10: for every monitored station and every date of the range for which no
\* source holds a reading, the output has exactly one row, whose twelve
\* concentration and sub-index fields and composite index are '---' and
\* whose category is 'TIDAK ADA DATA'.
C10_GapDaysAreNoData ==
    Processed =>
        \A s \in Range(measurement_stations), d \in Days :
            NoReading(s, d) =>
                /\ Cardinality(RowsOf(daily_aqi_raw_data, s, d)) = 1
                /\ \A k \in RowsOf(daily_aqi_raw_data, s, d) :
                      /\ \A c \in Range(AllColumns) \cup {"max"} :
                            daily_aqi_raw_data[k].cells[c] = "---"
                      /\ daily_aqi_raw_data[k].categori = "TIDAK ADA DATA"

\* C11: for every pollutant, concentration_to_aqi and aqi_to_concentration
\* return the input itself when it is 0 or the missing value NaN: the result
\* is that very cell, not the value or the exception that the interpolation
\* formula would give for it.
C11_ZeroAndMissingPropagate ==
    (pc = "returned"
       /\ call.fn \in {"concentration_to_aqi", "aqi_to_concentration"}
       /\ call.x \in {NaN, Num(0)})
        => ret = Ok(call.x)

\* C11 witness: the concentration 0 of CO has been converted, to the index 0
C11_Witness ==
    /\ Returned("concentration_to_aqi")
    /\ call.p = "co"
    /\ call.x = Num(0)
    /\ ret = Ok(Num(0))

\* the steps of the module script: each stage after the one before it, or
\* the end of the script by an exception of the stage
ScriptSteps ==
    {<<"load_pm25", "load_aqi">>, <<"load_aqi", "merge">>,
     <<"merge", "process">>, <<"process", "to_csv">>, <<"to_csv", "done">>,
     <<"load_pm25", "failed">>, <<"load_aqi", "failed">>, <<"merge", "failed">>}

\* C12: in every run the output is written at most once, by to_csv alone
\* and only after load PM2.5, load and align, merge and convert, aggregate
\* and categorize have run in that order on the inputs without an exception
\* (what is written is the result of exactly these stages); a run in which
\* an input is missing or a stage raises takes no further step and never
\* writes an output.
C12_AllOrNothing ==
    /\ [](/\ Len(saved) <= 1
          /\ pc = "failed" => saved = <<>>
          /\ missing # "nothing" => saved = <<>>
          /\ saved # <<>> =>
                LET pm25 == load_and_process_pm25_raw_data(pm25_csv)
                    aqi == load_and_process_aqi_raw_data(aqi_csv)
                    merged == merge_pm25_aqi_raw_data(pm25, aqi)
                IN  /\ pc = "done"
                    /\ merged.status = "ok"
                    /\ saved = <<process_daily_aqi_raw_data(merged.table)>>)
    /\ [][/\ pc \notin {"failed", "done"}
          /\ <<pc, pc'>> \in ScriptSteps
          /\ saved' # saved => pc = "to_csv"]_vars

\* C12 witness: a finished run that has written one table, computed from
\* PM2.5 readings and from rows of the combined series
C12_Witness ==
    /\ pc = "done"
    /\ Len(saved) = 1
    /\ saved[1] = daily_aqi_raw_data
    /\ aqi_csv # <<>>
    /\ pm25_csv[1] # <<>>
    /\ \E k \in DOMAIN saved[1] : saved[1][k].categori = "SEDANG"

\* the composite index of a station-day: the largest average sub-index of
\* the merged table's rows, as a whole number
CompositeIndex(s, d) ==
    IntOf(RowMax([cells |-> [p \in Range(Pollutants) |-> GroupMean(s, d, p)]]))

\* C13: in the table of process_daily_aqi_raw_data the category loop has
\* appended exactly one label for every row, whatever composite index the
\* earlier stages produced: there are as many labels as rows, and the label
\* stored in a row is the one label that the loop appends for that row's own
\* composite index.
C13_OneLabelPerRow ==
    Processed =>
        /\ Len(CategoriLoop([k \in DOMAIN daily_aqi_raw_data |->
                                CompositeIndex(daily_aqi_raw_data[k].stasiun,
                                               daily_aqi_raw_data[k].tanggal)]))
              = Len(daily_aqi_raw_data)
        /\ \A k \in DOMAIN daily_aqi_raw_data :
              LET r == daily_aqi_raw_data[k]
              IN  KeyLoop(CompositeIndex(r.stasiun, r.tanggal), 1) = <<r.categori>>

\* the pollutants whose index column is handed to aqi_to_concentration
IndexPollutants == Range(Pollutants) \ {"pm25"}

\* an index that is neither 0 nor NaN, is not greater than the last
\* tabulated index and is a member of no tabulated sub-range
OffRange(I) ==
    /\ ~IsNaN(I)
    /\ Val(I) # 0
    /\ Val(I) <= 10 * index_ranges[NumKeys].hi
    /\ \A k \in 1..NumKeys :
          \A n \in index_ranges[k].lo..index_ranges[k].hi : Val(I) # 10 * n

HoldsOffRange ==
    \E k \in DOMAIN aqi_csv, p \in IndexPollutants : OffRange(aqi_csv[k].cells[p])

\* C14: for an index of the combined series that is neither 0 nor missing,
\* is a member of no tabulated sub-range and is not greater than 301 (a
\* negative index, an index with a fraction such as 50.5), the loop of
\* aqi_to_concentration assigns no anchor, Xa, Xb, Ia and Ib stay 0 and the
\* call raises ZeroDivisionError instead of returning a concentration; a run
\* whose input holds such an index ends in merge_pm25_aqi_raw_data: it is
\* never merged and writes nothing.
C14_OffRangeIndexFails ==
    /\ [](\A k \in DOMAIN aqi_csv, p \in IndexPollutants :
             LET I == aqi_csv[k].cells[p]
             IN  OffRange(I) =>
                    /\ IndexLoop(p, Val(I), 1) = NoAnchors
                    /\ aqi_to_concentration(p, I) = ZeroDivisionError
                    /\ ~Merged
                    /\ saved = <<>>)
    /\ [][(pc = "merge" /\ HoldsOffRange) => pc' = "failed"]_vars

\* C14 witness: a run that ended in the merge on a combined series holding
\* a negative index and the index 50.5
C14_Witness ==
    /\ pc = "failed"
    /\ missing = "nothing"
    /\ \E k \in DOMAIN aqi_csv : aqi_csv[k].cells["so2"] = Num(-30)
    /\ \E k \in DOMAIN aqi_csv : aqi_csv[k].cells["pm10"] = Num(505)

====
